---- MODULE Spec2Model ----
(***************************************************************************)
(* A model of the linodego client slice: the paginated list calls          *)
(* (ListEvents, ListInstances, ListPlacementGroups), the single-request    *)
(* client methods of instances, events and placement groups, and the       *)
(* tolerant JSON decoding of Event and Instance.                           *)
(*                                                                         *)
(* Five independent state machines share the module:                       *)
(*   Spec        the list calls (two concurrent callers),                  *)
(*   SpecCall    one non-list client method invocation at a time,          *)
(*   SpecDecode  repeated decodes into one Event and one Instance,         *)
(*   SpecOptions an Options Record built field by field and serialized,    *)
(*   SpecUpdate  GetUpdateOptions on an Instance.                          *)
(***************************************************************************)
EXTENDS Integers, Sequences, FiniteSets, TLC

(***************************************************************************)
(* Bounds of the model.                                                    *)
(***************************************************************************)
\* the provider serves between 1 and MaxPages pages per listing endpoint
MaxPages == 3
\* a page holds between 0 and MaxPageLen records
MaxPageLen == 1
\* the caller-supplied page cap ranges over 0 (no cap) .. MaxCap
MaxCap == 1

\* the concurrent callers of the list methods
Calls == {"c1", "c2"}

\* the listing endpoints: account/events, linode/instances, placement/groups
Endpoints == {"account/events", "linode/instances", "placement/groups"}

\* record identities repeat across pages, so a deduplicating accumulator is visible
RecIds == {0, 1}

(***************************************************************************)
(* Errors.  An error value names its kind and the page whose fetch made it *)
(* (page 0 for a request that is not a page fetch).                        *)
(***************************************************************************)
NoErr == [kind |-> "nil", page |-> 0]

\* what the HTTP layer / error classifier can report for a request that was sent
FailKinds == {"APIError", "TransportError"}

MkErr(kind, p) == [kind |-> kind, page |-> p]

VARIABLES
    sizes,      \* the provider: sizes[p] is the number of records of page p
    pc,         \* per call: "idle", "ready" (about to invoke the HTTP layer),
                \*           "inflight" (request sent, waiting), "done"
    endpoint,   \* per call: the listing endpoint of the call
    cap,        \* per call: the caller-supplied page cap, 0 for none
    page,       \* per call: the page being fetched
    pages,      \* per call: the total page count read from the envelope
    data,       \* per accumulator: the Result Accumulator (response.Data)
    returned,   \* per call: what the caller got, [data, err]
    cancelled,  \* per call: the caller cancelled the call's context
    invoked,    \* per call: the pages for which the HTTP layer was invoked, in order
    sent,       \* per call: the pages whose request went out to the provider, in order
    httpErr,    \* per call: the error the HTTP layer gave the call, NoErr if none (history)
    sentAtCancel, \* per call: how many requests were out when it was cancelled, -1 before (history)
    \* ---- one invocation of a non-list client method ----
    mpc,        \* "idle", "ready" (about to invoke the HTTP layer), "inflight", "done"
    method,     \* the method invoked
    arg,        \* its arguments: [id, configID, opts]
    pending,    \* the requests the method body still has to make
    minvoked,   \* the requests for which the HTTP layer was invoked, in order
    msent,      \* the requests that went out to the provider, in order
    mret,       \* what the caller got: [rec, err]
    mhttpErr,   \* the error the HTTP layer gave, NoErr if none (history)
    mcancelled, \* the caller cancelled the invocation's context
    \* ---- decodes into one Event or Instance record ----
    target,     \* "Event" or "Instance": the type of the record decoded into
    rec,        \* the record: [ID, Created, Updated, TimeRemaining]
    decErr,     \* the error of the last decode, NoErr if it succeeded
    lastIn,     \* the JSON object of the last decode (history)
    decodes,    \* the number of decodes so far, up to MaxDecodes
    heldBefore, \* every tolerant field of the record held a value when the
                \* last decode began (history)
    \* ---- one Options Record, built and serialized ----
    otype,      \* the Options Record type
    oval,       \* the record: per field "nil" (pointer unset), "zero"
                \*             (the empty value) or "value"
    obody,      \* the JSON object produced: the [name, v] members sent
    opc,        \* "building" or "marshalled"
    \* ---- GetUpdateOptions on one Instance ----
    inst,       \* the Instance: [Label, Group, Backups, Alerts, WatchdogEnabled, Tags]
    uopts,      \* the InstanceUpdateOptions returned
    upc,        \* "before" or "after" the call
    instBefore  \* the Instance as it was when the call was made (history)

listVars == <<sizes, pc, endpoint, cap, page, pages, data, returned,
              cancelled, invoked, sent, httpErr, sentAtCancel>>

callVars == <<mpc, method, arg, pending, minvoked, msent, mret, mhttpErr, mcancelled>>

decVars == <<target, rec, decErr, lastIn, decodes, heldBefore>>

optVars == <<otype, oval, obody, opc>>

updVars == <<inst, uopts, upc, instBefore>>

vars == <<listVars, callVars, decVars, optVars, updVars>>

\* what the steps of one machine leave alone
notList == <<callVars, decVars, optVars, updVars>>
notCall == <<listVars, decVars, optVars, updVars>>
notDec == <<listVars, callVars, optVars, updVars>>
notOpt == <<listVars, callVars, decVars, updVars>>
notUpd == <<listVars, callVars, decVars, optVars>>

(***************************************************************************)
(* The provider.                                                           *)
(***************************************************************************)
\* the records of page p of endpoint e, in the provider's order
PageOf(e, p) ==
    IF p \in 1..Len(sizes)
    THEN [i \in 1..sizes[p] |-> <<e, (p + i) % Cardinality(RecIds)>>]
    ELSE <<>>

RECURSIVE SumSizes(_)
SumSizes(s) == IF s = <<>> THEN 0 ELSE Head(s) + SumSizes(Tail(s))

\* the page envelope of a successful fetch of page p
Envelope(e, p) ==
    [data |-> PageOf(e, p), pages |-> Len(sizes), results |-> SumSizes(sizes)]

\* the records of pages 1..n of endpoint e, concatenated in page order
RECURSIVE ConcatPages(_, _)
ConcatPages(e, n) ==
    IF n = 0 THEN <<>> ELSE ConcatPages(e, n - 1) \o PageOf(e, n)

(***************************************************************************)
(* The HTTP layer and the error classifier (external collaborators).       *)
(***************************************************************************)
EmptyEnvelope == [data |-> <<>>, pages |-> 0, results |-> 0]

\* the HTTP layer's answer to GET of page p of endpoint e: with the context
\* cancelled it is a cancellation error, whatever the provider would have said
HttpGetPage(e, p, ctxCancelled, outcome) ==
    IF ctxCancelled THEN [err |-> MkErr("Cancelled", p), body |-> EmptyEnvelope]
    ELSE IF outcome = "ok" THEN [err |-> NoErr, body |-> Envelope(e, p)]
    ELSE [err |-> MkErr(outcome, p), body |-> EmptyEnvelope]

\* coupleAPIErrors: an error of the HTTP layer or a non-2xx answer comes back as
\* the error alone, with no response
coupleAPIErrors(r) ==
    IF r.err # NoErr THEN [err |-> r.err, body |-> EmptyEnvelope] ELSE r

(***************************************************************************)
(* castResult: one page fetch merged into the accumulator.                 *)
(***************************************************************************)
\* mutant: the fetched page is put in front of the accumulated records
castResult_prepend(acc, r) ==
    LET res == coupleAPIErrors(r) IN
    IF res.err # NoErr
    THEN [pages |-> 0, results |-> 0, err |-> res.err, data |-> acc]
    ELSE [pages |-> res.body.pages, results |-> res.body.results,
          err |-> NoErr, data |-> res.body.data \o acc]

EventsPagedResponse_castResult(acc, r) ==
    LET res == coupleAPIErrors(r) IN
    IF res.err # NoErr
    THEN [pages |-> 0, results |-> 0, err |-> res.err, data |-> acc]
    ELSE [pages |-> res.body.pages, results |-> res.body.results,
          err |-> NoErr, data |-> acc \o res.body.data]

\* mutant: the result count is returned where the page count belongs
castResult_swapCounts(acc, r) ==
    LET res == coupleAPIErrors(r) IN
    IF res.err # NoErr
    THEN [pages |-> 0, results |-> 0, err |-> res.err, data |-> acc]
    ELSE [pages |-> res.body.results, results |-> res.body.pages,
          err |-> NoErr, data |-> acc \o res.body.data]

InstancesPagedResponse_castResult(acc, r) ==
    LET res == coupleAPIErrors(r) IN
    IF res.err # NoErr
    THEN [pages |-> 0, results |-> 0, err |-> res.err, data |-> acc]
    ELSE [pages |-> res.body.pages, results |-> res.body.results,
          err |-> NoErr, data |-> acc \o res.body.data]

\* getPaginatedResults, the generic paginator behind ListPlacementGroups: the
\* same merge of one page
getPaginatedResults_page(acc, r) ==
    LET res == coupleAPIErrors(r) IN
    IF res.err # NoErr
    THEN [pages |-> 0, results |-> 0, err |-> res.err, data |-> acc]
    ELSE [pages |-> res.body.pages, results |-> res.body.results,
          err |-> NoErr, data |-> acc \o res.body.data]

castResult(e, acc, r) ==
    CASE e = "account/events"   -> EventsPagedResponse_castResult(acc, r)
      [] e = "linode/instances" -> InstancesPagedResponse_castResult(acc, r)
      [] OTHER                  -> getPaginatedResults_page(acc, r)

\* listHelper's loop test after page p of `total` was fetched: more pages remain
\* and the caller's page cap (0: none) is not reached
listHelper_more(p, total, capv) ==
    p < total /\ (capv = 0 \/ p < capv)

(***************************************************************************)
(* What the list methods hand to the caller.                               *)
(***************************************************************************)
\* mutant: on an error the records accumulated so far are handed out with it
ListEvents_partial(helperErr, acc) ==
    [data |-> acc, err |-> helperErr]

ListEvents(helperErr, acc) ==
    IF helperErr # NoErr THEN [data |-> <<>>, err |-> helperErr]
    ELSE [data |-> acc, err |-> NoErr]

\* mutant: the helper's error is dropped
ListInstances_swallow(helperErr, acc) ==
    [data |-> acc, err |-> NoErr]

ListInstances(helperErr, acc) ==
    IF helperErr # NoErr THEN [data |-> <<>>, err |-> helperErr]
    ELSE [data |-> acc, err |-> NoErr]

ListPlacementGroups(helperErr, acc) ==
    IF helperErr # NoErr THEN [data |-> <<>>, err |-> helperErr]
    ELSE [data |-> acc, err |-> NoErr]

ListReturn(e, helperErr, acc) ==
    CASE e = "account/events"   -> ListEvents(helperErr, acc)
      [] e = "linode/instances" -> ListInstances(helperErr, acc)
      [] OTHER                  -> ListPlacementGroups(helperErr, acc)

(***************************************************************************)
\* mutant: one package-level response shared by every call
\* (the accumulator of call c, below, is a fresh local)
response_shared(c) == "c1"

\* the accumulator of call c: ListEvents and ListInstances declare a fresh local
\* response per invocation, so each call has its own
response(c) == c

(***************************************************************************)
(* The list calls as processes.  A call yields only around its requests:   *)
(* before it invokes the HTTP layer ("ready") and while the request is out *)
(* ("inflight").                                                           *)
(***************************************************************************)
NoReturn == [data |-> <<>>, err |-> NoErr]

ShapeSet ==
    UNION {[1..n -> 0..MaxPageLen] : n \in 1..MaxPages}

ListInit ==
    /\ sizes \in ShapeSet
    /\ pc = [c \in Calls |-> "idle"]
    /\ endpoint = [c \in Calls |-> "account/events"]
    /\ cap = [c \in Calls |-> 0]
    /\ page = [c \in Calls |-> 0]
    /\ pages = [c \in Calls |-> 0]
    /\ data = [c \in Calls |-> <<>>]
    /\ returned = [c \in Calls |-> NoReturn]
    /\ cancelled = [c \in Calls |-> FALSE]
    /\ invoked = [c \in Calls |-> <<>>]
    /\ sent = [c \in Calls |-> <<>>]
    /\ httpErr = [c \in Calls |-> NoErr]
    /\ sentAtCancel = [c \in Calls |-> -1]

\* the caller invokes ListEvents / ListInstances / ListPlacementGroups:
\* a fresh, empty response (accumulator), page 1 next
ListCall(c, e, k) ==
    /\ pc[c] = "idle"
    /\ pc' = [pc EXCEPT ![c] = "ready"]
    /\ endpoint' = [endpoint EXCEPT ![c] = e]
    /\ cap' = [cap EXCEPT ![c] = k]
    /\ page' = [page EXCEPT ![c] = 1]
    /\ data' = [data EXCEPT ![response(c)] = <<>>]
    /\ UNCHANGED <<sizes, pages, returned, cancelled, invoked, sent, httpErr, sentAtCancel>>
    /\ UNCHANGED notList

\* the caller cancels the context of a call that has not returned
Cancel(c) ==
    /\ pc[c] \in {"ready", "inflight"}
    /\ ~cancelled[c]
    /\ cancelled' = [cancelled EXCEPT ![c] = TRUE]
    /\ sentAtCancel' = [sentAtCancel EXCEPT ![c] = Len(sent[c])]
    /\ UNCHANGED <<sizes, pc, endpoint, cap, page, pages, data, returned, invoked, sent, httpErr>>
    /\ UNCHANGED notList

\* mutant: the list method passes no options on
listOptions_nil(e, k) == 0

\* the options a list method hands to the pagination helper: those of its
\* caller, whose page cap is k
listOptions(e, k) == k

\* the end of the page fetch of call c with the HTTP layer's answer r:
\* castResult, then listHelper's loop, then the list method's return
FetchDone(c, r) ==
    LET cr == castResult(endpoint[c], data[response(c)], r) IN
    /\ data' = [data EXCEPT ![response(c)] = cr.data]
    /\ httpErr' = [httpErr EXCEPT ![c] = r.err]
    /\ IF cr.err # NoErr
       THEN /\ pc' = [pc EXCEPT ![c] = "done"]
            /\ returned' = [returned EXCEPT ![c] = ListReturn(endpoint[c], cr.err, cr.data)]
            /\ UNCHANGED <<page, pages>>
       ELSE IF listHelper_more(page[c], IF page[c] = 1 THEN cr.pages ELSE pages[c],
                               listOptions(endpoint[c], cap[c]))
       THEN /\ pc' = [pc EXCEPT ![c] = "ready"]
            /\ page' = [page EXCEPT ![c] = page[c] + 1]
            /\ pages' = [pages EXCEPT ![c] = IF page[c] = 1 THEN cr.pages ELSE pages[c]]
            /\ UNCHANGED returned
       ELSE /\ pc' = [pc EXCEPT ![c] = "done"]
            /\ pages' = [pages EXCEPT ![c] = IF page[c] = 1 THEN cr.pages ELSE pages[c]]
            /\ returned' = [returned EXCEPT ![c] = ListReturn(endpoint[c], NoErr, cr.data)]
            /\ UNCHANGED page

\* the call invokes the HTTP layer for its next page; with the context already
\* cancelled the HTTP layer refuses at once and nothing goes out
InvokeFetch(c) ==
    /\ pc[c] = "ready"
    /\ UNCHANGED notList
    /\ invoked' = [invoked EXCEPT ![c] = Append(invoked[c], page[c])]
    /\ IF cancelled[c]
       THEN /\ FetchDone(c, HttpGetPage(endpoint[c], page[c], TRUE, "ok"))
            /\ UNCHANGED <<sizes, endpoint, cap, cancelled, sent, sentAtCancel>>
       ELSE /\ sent' = [sent EXCEPT ![c] = Append(sent[c], page[c])]
            /\ pc' = [pc EXCEPT ![c] = "inflight"]
            /\ UNCHANGED <<sizes, endpoint, cap, page, pages, data, returned, cancelled,
                           httpErr, sentAtCancel>>

\* the HTTP layer answers the request that is out
FetchReturns(c, outcome) ==
    /\ pc[c] = "inflight"
    /\ FetchDone(c, HttpGetPage(endpoint[c], page[c], cancelled[c], outcome))
    /\ UNCHANGED <<sizes, endpoint, cap, cancelled, invoked, sent, sentAtCancel>>
    /\ UNCHANGED notList

ListNext ==
    \/ \E c \in Calls, e \in Endpoints, k \in 0..MaxCap : ListCall(c, e, k)
    \/ \E c \in Calls : Cancel(c)
    \/ \E c \in Calls : InvokeFetch(c)
    \/ \E c \in Calls, outcome \in {"ok"} \cup FailKinds : FetchReturns(c, outcome)

(***************************************************************************)
(* The non-list client methods.                                            *)
(***************************************************************************)
\* resource IDs range over 1..MaxID, config IDs over 0..MaxConfigID (0: none
\* given), labels over 0..MaxLabel
MaxID == 2
MaxConfigID == 1
MaxLabel == 1

NilRec == [type |-> "nil", id |-> 0]

\* request bodies
NoBody == [kind |-> "", n |-> 0]
ConfigBody(n) == [kind |-> "config_id", n |-> n]
OptsBody(o) == [kind |-> "opts", n |-> o.label]

Request(verb, tmpl, id, body) ==
    [verb |-> verb, tmpl |-> tmpl, id |-> id, body |-> body]

\* json.Marshal of an Options Record: the body, or the encoder's error
jsonMarshal(o) ==
    IF o.ser THEN [err |-> NoErr, body |-> OptsBody(o)]
    ELSE [err |-> MkErr("SerializationError", 0), body |-> NoBody]

\* json.Marshal of map[string]int{"config_id": configID}
jsonMarshalConfig(o, configID) ==
    IF o.ser THEN [err |-> NoErr, body |-> ConfigBody(configID)]
    ELSE [err |-> MkErr("SerializationError", 0), body |-> NoBody]

\* what a method body does before it waits: an early error, or its requests
Early(e) == [early |-> e, reqs |-> <<>>]
Go(req) == [early |-> NoErr, reqs |-> <<req>>]

GetEvent_req(a) == Go(Request("GET", "account/events/%d", a.id, NoBody))
MarkEventRead_req(a) == Go(Request("POST", "account/events/%d/read", a.id, NoBody))
MarkEventsSeen_req(a) == Go(Request("POST", "account/events/%d/seen", a.id, NoBody))
GetInstance_req(a) == Go(Request("GET", "linode/instances/%d", a.id, NoBody))
GetInstanceTransfer_req(a) ==
    Go(Request("GET", "linode/instances/%d/transfer", a.id, NoBody))

CreateInstance_req(a) ==
    LET b == jsonMarshal(a.opts) IN
    IF b.err # NoErr THEN Early(b.err)
    ELSE Go(Request("POST", "linode/instances", 0, b.body))

\* mutant: the encoder's error is dropped and the request goes out
UpdateInstance_ignoreMarshalErr(a) ==
    Go(Request("PUT", "linode/instances/%d", a.id, jsonMarshal(a.opts).body))

UpdateInstance_req(a) ==
    LET b == jsonMarshal(a.opts) IN
    IF b.err # NoErr THEN Early(b.err)
    ELSE Go(Request("PUT", "linode/instances/%d", a.id, b.body))

RenameInstance_req(a) ==
    UpdateInstance_req([a EXCEPT !.opts = [ser |-> TRUE, label |-> a.opts.label]])

\* mutant: the request is made a second time
DeleteInstance_twice(a) ==
    [early |-> NoErr,
     reqs |-> <<Request("DELETE", "linode/instances/%d", a.id, NoBody),
                Request("DELETE", "linode/instances/%d", a.id, NoBody)>>]

DeleteInstance_req(a) == Go(Request("DELETE", "linode/instances/%d", a.id, NoBody))

\* mutant: the config_id body is built for every configID, 0 included
BootInstance_alwaysConfig(a) ==
    LET b == jsonMarshalConfig(a.opts, a.configID) IN
    IF b.err # NoErr THEN Early(b.err)
    ELSE Go(Request("POST", "linode/instances/%d/boot", a.id, b.body))

BootInstance_req(a) ==
    IF a.configID # 0
    THEN LET b == jsonMarshalConfig(a.opts, a.configID) IN
         IF b.err # NoErr THEN Early(b.err)
         ELSE Go(Request("POST", "linode/instances/%d/boot", a.id, b.body))
    ELSE Go(Request("POST", "linode/instances/%d/boot", a.id, NoBody))

CloneInstance_req(a) ==
    LET b == jsonMarshal(a.opts) IN
    IF b.err # NoErr THEN Early(b.err)
    ELSE Go(Request("POST", "linode/instances/%d/clone", a.id, b.body))

RebootInstance_req(a) ==
    IF a.configID # 0
    THEN LET b == jsonMarshalConfig(a.opts, a.configID) IN
         IF b.err # NoErr THEN Early(b.err)
         ELSE Go(Request("POST", "linode/instances/%d/reboot", a.id, b.body))
    ELSE Go(Request("POST", "linode/instances/%d/reboot", a.id,
                    [kind |-> "{}", n |-> 0]))

RebuildInstance_req(a) ==
    LET b == jsonMarshal(a.opts) IN
    IF b.err # NoErr THEN Early(b.err)
    ELSE Go(Request("POST", "linode/instances/%d/rebuild", a.id, b.body))

RescueInstance_req(a) ==
    LET b == jsonMarshal(a.opts) IN
    IF b.err # NoErr THEN Early(b.err)
    ELSE Go(Request("POST", "linode/instances/%d/rescue", a.id, b.body))

ResizeInstance_req(a) ==
    LET b == jsonMarshal(a.opts) IN
    IF b.err # NoErr THEN Early(b.err)
    ELSE Go(Request("POST", "linode/instances/%d/resize", a.id, b.body))

MigrateInstance_req(a) ==
    LET b == jsonMarshal(a.opts) IN
    IF b.err # NoErr THEN Early(b.err)
    ELSE Go(Request("POST", "linode/instances/%d/migrate", a.id, b.body))

\* simpleInstanceAction: one POST without body through doPOSTRequest
simpleInstanceAction(action, a) ==
    Go(Request("POST", action, a.id, NoBody))

ShutdownInstance_req(a) == simpleInstanceAction("linode/instances/%d/shutdown", a)
MutateInstance_req(a) == simpleInstanceAction("linode/instances/%d/mutate", a)

\* the generic request helpers behind the placement group methods
doRequest(verb, tmpl, a, withBody) ==
    IF withBody
    THEN LET b == jsonMarshal(a.opts) IN
         IF b.err # NoErr THEN Early(b.err)
         ELSE Go(Request(verb, tmpl, a.id, b.body))
    ELSE Go(Request(verb, tmpl, a.id, NoBody))

GetPlacementGroup_req(a) == doRequest("GET", "placement/groups/%d", a, FALSE)
CreatePlacementGroup_req(a) ==
    doRequest("POST", "placement/groups", [a EXCEPT !.id = 0], TRUE)
UpdatePlacementGroup_req(a) == doRequest("PUT", "placement/groups/%d", a, TRUE)
AssignPlacementGroupLinodes_req(a) ==
    doRequest("POST", "placement/groups/%d/assign", a, TRUE)
UnAssignPlacementGroupLinodes_req(a) ==
    doRequest("POST", "placement/groups/%d/unassign", a, TRUE)
DeletePlacementGroup_req(a) == doRequest("DELETE", "placement/groups/%d", a, FALSE)

EventMethods == {"GetEvent", "MarkEventRead", "MarkEventsSeen"}
InstanceMethods ==
    {"GetInstance", "GetInstanceTransfer", "CreateInstance", "UpdateInstance",
     "RenameInstance", "DeleteInstance", "BootInstance", "CloneInstance",
     "RebootInstance", "RebuildInstance", "RescueInstance", "ResizeInstance",
     "MigrateInstance", "ShutdownInstance", "MutateInstance"}
PlacementGroupMethods ==
    {"GetPlacementGroup", "CreatePlacementGroup", "UpdatePlacementGroup",
     "AssignPlacementGroupLinodes", "UnAssignPlacementGroupLinodes",
     "DeletePlacementGroup"}
Methods == EventMethods \cup InstanceMethods \cup PlacementGroupMethods

MethodReq(m, a) ==
    CASE m = "GetEvent" -> GetEvent_req(a)
      [] m = "MarkEventRead" -> MarkEventRead_req(a)
      [] m = "MarkEventsSeen" -> MarkEventsSeen_req(a)
      [] m = "GetInstance" -> GetInstance_req(a)
      [] m = "GetInstanceTransfer" -> GetInstanceTransfer_req(a)
      [] m = "CreateInstance" -> CreateInstance_req(a)
      [] m = "UpdateInstance" -> UpdateInstance_req(a)
      [] m = "RenameInstance" -> RenameInstance_req(a)
      [] m = "DeleteInstance" -> DeleteInstance_req(a)
      [] m = "BootInstance" -> BootInstance_req(a)
      [] m = "CloneInstance" -> CloneInstance_req(a)
      [] m = "RebootInstance" -> RebootInstance_req(a)
      [] m = "RebuildInstance" -> RebuildInstance_req(a)
      [] m = "RescueInstance" -> RescueInstance_req(a)
      [] m = "ResizeInstance" -> ResizeInstance_req(a)
      [] m = "MigrateInstance" -> MigrateInstance_req(a)
      [] m = "ShutdownInstance" -> ShutdownInstance_req(a)
      [] m = "MutateInstance" -> MutateInstance_req(a)
      [] m = "GetPlacementGroup" -> GetPlacementGroup_req(a)
      [] m = "CreatePlacementGroup" -> CreatePlacementGroup_req(a)
      [] m = "UpdatePlacementGroup" -> UpdatePlacementGroup_req(a)
      [] m = "AssignPlacementGroupLinodes" -> AssignPlacementGroupLinodes_req(a)
      [] m = "UnAssignPlacementGroupLinodes" -> UnAssignPlacementGroupLinodes_req(a)
      [] OTHER -> DeletePlacementGroup_req(a)

\* the type of record a method decodes its response into ("" for the methods
\* that return an error only)
ResultType(m) ==
    CASE m = "GetEvent" -> "Event"
      [] m \in {"GetInstance", "CreateInstance", "UpdateInstance", "RenameInstance",
                "CloneInstance", "RebuildInstance"} -> "Instance"
      [] m = "GetInstanceTransfer" -> "InstanceTransfer"
      [] m \in PlacementGroupMethods \ {"DeletePlacementGroup"} -> "PlacementGroup"
      [] OTHER -> ""

RecordMethods == {m \in Methods : ResultType(m) # ""}

\* the HTTP layer's answer to a request of method m: with the context cancelled
\* a cancellation error, else the decoded record or the reported error
HttpDo(m, req, ctxCancelled, outcome) ==
    IF ctxCancelled THEN [err |-> MkErr("Cancelled", 0), body |-> NilRec]
    ELSE IF outcome = "ok"
    THEN [err |-> NoErr, body |-> [type |-> ResultType(m), id |-> req.id]]
    ELSE [err |-> MkErr(outcome, 0), body |-> NilRec]

\* mutant: the result is handed out together with the error
GetEvent_both(r) ==
    [rec |-> [type |-> "Event", id |-> 0], err |-> r.err]

\* GetEvent after its request: nil and the error, or the decoded Event
GetEvent_ret(r) ==
    LET res == coupleAPIErrors(r) IN
    IF res.err # NoErr THEN [rec |-> NilRec, err |-> res.err]
    ELSE [rec |-> res.body, err |-> NoErr]

\* the same two returns in GetInstance, GetInstanceTransfer, CreateInstance,
\* UpdateInstance, CloneInstance and RebuildInstance
InstanceRecord_ret(r) ==
    LET res == coupleAPIErrors(r) IN
    IF res.err # NoErr THEN [rec |-> NilRec, err |-> res.err]
    ELSE [rec |-> res.body, err |-> NoErr]

\* the methods that return the error alone
ErrorOnly_ret(r) ==
    [rec |-> NilRec, err |-> coupleAPIErrors(r).err]

\* doGETRequest / doPOSTRequest / doPUTRequest behind the placement group methods
doRequest_ret(r) ==
    LET res == coupleAPIErrors(r) IN
    IF res.err # NoErr THEN [rec |-> NilRec, err |-> res.err]
    ELSE [rec |-> res.body, err |-> NoErr]

MethodRet(m, r) ==
    CASE m = "GetEvent" -> GetEvent_ret(r)
      [] m \in InstanceMethods /\ ResultType(m) # "" -> InstanceRecord_ret(r)
      [] m \in PlacementGroupMethods /\ ResultType(m) # "" -> doRequest_ret(r)
      [] OTHER -> ErrorOnly_ret(r)

ArgSet ==
    [id : 1..MaxID, configID : 0..MaxConfigID,
     opts : [ser : BOOLEAN, label : 0..MaxLabel]]

NoArg == [id |-> 0, configID |-> 0, opts |-> [ser |-> TRUE, label |-> 0]]

CallInit ==
    /\ mpc = "idle"
    /\ method = ""
    /\ arg = NoArg
    /\ pending = <<>>
    /\ minvoked = <<>>
    /\ msent = <<>>
    /\ mret = [rec |-> NilRec, err |-> NoErr]
    /\ mhttpErr = NoErr
    /\ mcancelled = FALSE

\* the caller invokes method m with arguments a: the method runs up to its
\* first request, or returns the serialization error
Invoke(m, a) ==
    LET plan == MethodReq(m, a) IN
    /\ mpc = "idle"
    /\ method' = m
    /\ arg' = a
    /\ IF plan.early # NoErr
       THEN /\ mpc' = "done"
            /\ mret' = [rec |-> NilRec, err |-> plan.early]
            /\ pending' = <<>>
       ELSE /\ mpc' = "ready"
            /\ pending' = plan.reqs
            /\ UNCHANGED mret
    /\ UNCHANGED <<minvoked, msent, mhttpErr, mcancelled>>
    /\ UNCHANGED notCall

\* the caller cancels the context of the invocation
CancelCall ==
    /\ mpc \in {"ready", "inflight"}
    /\ ~mcancelled
    /\ mcancelled' = TRUE
    /\ UNCHANGED <<mpc, method, arg, pending, minvoked, msent, mret, mhttpErr>>
    /\ UNCHANGED notCall

\* the end of a request with the HTTP layer's answer r: the method returns, or
\* goes on to the next request of its body if it has one
CallDone(r) ==
    LET out == MethodRet(method, r) IN
    /\ mhttpErr' = r.err
    /\ pending' = Tail(pending)
    /\ IF out.err = NoErr /\ Tail(pending) # <<>>
       THEN mpc' = "ready" /\ UNCHANGED mret
       ELSE mpc' = "done" /\ mret' = out

\* the method invokes the HTTP layer; with the context already cancelled the
\* HTTP layer refuses at once and nothing goes out
InvokeHTTP ==
    /\ mpc = "ready"
    /\ UNCHANGED notCall
    /\ minvoked' = Append(minvoked, Head(pending))
    /\ IF mcancelled
       THEN /\ CallDone(HttpDo(method, Head(pending), TRUE, "ok"))
            /\ UNCHANGED <<method, arg, msent, mcancelled>>
       ELSE /\ msent' = Append(msent, Head(pending))
            /\ mpc' = "inflight"
            /\ UNCHANGED <<method, arg, pending, mret, mhttpErr, mcancelled>>

\* the HTTP layer answers the request that is out
HTTPReturns(outcome) ==
    /\ mpc = "inflight"
    /\ CallDone(HttpDo(method, Head(pending), mcancelled, outcome))
    /\ UNCHANGED <<method, arg, minvoked, msent, mcancelled>>
    /\ UNCHANGED notCall

CallNext ==
    \/ \E m \in Methods, a \in ArgSet : Invoke(m, a)
    \/ CancelCall
    \/ InvokeHTTP
    \/ \E outcome \in {"ok"} \cup FailKinds : HTTPReturns(outcome)

(***************************************************************************)
(* Tolerant decoding of Event and Instance.                                *)
(*                                                                         *)
(* A timestamp string is [fmt, h, off]: its format ("space" for            *)
(* "YYYY-MM-DD HH:MM:SS", "iso" for ISO-8601 with a zone offset, "junk"    *)
(* for anything else), the hour it shows and the zone offset it carries.   *)
(* An instant is a number of hours since the epoch, in UTC.                *)
(* A duration string is [ok, m, s]: whether it matches the duration        *)
(* grammar, and the minutes and seconds it shows.                          *)
(***************************************************************************)
\* the hours shown range over 0..MaxHour
MaxHour == 1
\* bare integers of time_remaining and the seconds shown by a duration string
\* range over 0..MaxSecs
MaxSecs == 1
\* the zone offsets an ISO-8601 string carries, the minutes a duration string
\* shows, and the values of the standard field id
ZoneOffsets == {-1, 0, 1}
Minutes == {0, 1}
StdIds == {1, 2}
\* a record is decoded into at most MaxDecodes times
MaxDecodes == 2

\* *time.Time and *int: nil, or a value
NoTime == [set |-> FALSE, t |-> 0]
SomeTime(t) == [set |-> TRUE, t |-> t]
NoValue == [set |-> FALSE, n |-> 0]
SomeValue(n) == [set |-> TRUE, n |-> n]

\* the JSON values of a timestamp field
TsAbsent == [kind |-> "absent", fmt |-> "", h |-> 0, off |-> 0]
TsNull == [kind |-> "null", fmt |-> "", h |-> 0, off |-> 0]
TsStrings ==
    {[kind |-> "string", fmt |-> "space", h |-> h, off |-> 0] : h \in 0..MaxHour}
    \cup {[kind |-> "string", fmt |-> "iso", h |-> h, off |-> o] :
             h \in 0..MaxHour, o \in ZoneOffsets}
    \cup {[kind |-> "string", fmt |-> "junk", h |-> 0, off |-> 0]}
TsJSON == {TsAbsent, TsNull} \cup TsStrings

\* the JSON values of time_remaining
DurAbsent == [kind |-> "absent", ok |-> FALSE, n |-> 0, m |-> 0, s |-> 0]
DurNull == [kind |-> "null", ok |-> FALSE, n |-> 0, m |-> 0, s |-> 0]
DurInts == {[kind |-> "int", ok |-> FALSE, n |-> n, m |-> 0, s |-> 0] : n \in 0..MaxSecs}
DurStrings ==
    {[kind |-> "string", ok |-> TRUE, n |-> 0, m |-> m, s |-> x] :
        m \in Minutes, x \in 0..MaxSecs}
    \cup {[kind |-> "string", ok |-> FALSE, n |-> 0, m |-> 0, s |-> 0]}
DurJSON == {DurAbsent, DurNull} \cup DurInts \cup DurStrings

\* parseabletime: a timestamp string to an instant, or the parse error; a
\* zone-less string is taken as UTC
ParseableTime_UnmarshalJSON(v) ==
    CASE v.fmt = "space" -> [err |-> NoErr, t |-> v.h]
      [] v.fmt = "iso"   -> [err |-> NoErr, t |-> v.h - v.off]
      [] OTHER           -> [err |-> MkErr("DecodeError", 0), t |-> 0]

\* mutant: the field is a plain *time.Time, whose decoder takes ISO-8601 only
jsonUnmarshal_time_stdTime(v) ==
    IF v.kind \in {"absent", "null"} THEN [err |-> NoErr, p |-> NoTime]
    ELSE LET r == ParseableTime_UnmarshalJSON(v) IN
         IF r.err # NoErr \/ v.fmt # "iso"
         THEN [err |-> MkErr("DecodeError", 0), p |-> NoTime]
         ELSE [err |-> NoErr, p |-> SomeTime(r.t)]

\* encoding/json on a *ParseableTime field: absent and null leave nil, a string
\* goes through the type's UnmarshalJSON
jsonUnmarshal_time(v) ==
    IF v.kind \in {"absent", "null"} THEN [err |-> NoErr, p |-> NoTime]
    ELSE LET r == ParseableTime_UnmarshalJSON(v) IN
         IF r.err # NoErr THEN [err |-> r.err, p |-> NoTime]
         ELSE [err |-> NoErr, p |-> SomeTime(r.t)]

\* duration.UnmarshalTimeRemaining: never an error
UnmarshalTimeRemaining(v) ==
    CASE v.kind \in {"absent", "null"} -> NoValue
      [] v.kind = "int" -> SomeValue(v.n)
      [] v.kind = "string" /\ v.ok -> SomeValue(v.m * 60 + v.s)
      [] OTHER -> NoValue

\* the standard fields after a failed json.Unmarshal: decoded straight into the
\* record through the embedded Mask, they are the old or the new ones
\* according to where in the input the error was met
StdAfterFailure(old, in) == {old.ID, in.id}

\* mutant: TimeRemaining is not assigned from the decoder
Event_UnmarshalJSON_noTimeRemaining(i, in, idOnFail) ==
    LET created == jsonUnmarshal_time(in.created)
        err == IF ~in.shapeOk THEN MkErr("DecodeError", 0) ELSE created.err
    IN  IF err # NoErr
        THEN [err |-> err, rec |-> [i EXCEPT !.ID = idOnFail]]
        ELSE [err |-> NoErr,
              rec |-> [i EXCEPT !.ID = in.id, !.Created = created.p]]

\* mutant: a time_remaining string that does not parse fails the decode
Event_UnmarshalJSON_strictDuration(i, in, idOnFail) ==
    LET created == jsonUnmarshal_time(in.created)
        badDur == in.time_remaining.kind = "string" /\ ~in.time_remaining.ok
        err == IF ~in.shapeOk \/ badDur THEN MkErr("DecodeError", 0)
               ELSE created.err
    IN  IF err # NoErr
        THEN [err |-> err, rec |-> [i EXCEPT !.ID = idOnFail]]
        ELSE [err |-> NoErr,
              rec |-> [i EXCEPT !.ID = in.id,
                                !.Created = created.p,
                                !.TimeRemaining =
                                    UnmarshalTimeRemaining(in.time_remaining)]]

\* mutant: Created is assigned only when the input gave a timestamp
Event_UnmarshalJSON_keepsOnNil(i, in, idOnFail) ==
    LET created == jsonUnmarshal_time(in.created)
        err == IF ~in.shapeOk THEN MkErr("DecodeError", 0) ELSE created.err
    IN  IF err # NoErr
        THEN [err |-> err, rec |-> [i EXCEPT !.ID = idOnFail]]
        ELSE [err |-> NoErr,
              rec |-> [i EXCEPT !.ID = in.id,
                                !.Created = IF created.p.set THEN created.p
                                            ELSE i.Created,
                                !.TimeRemaining =
                                    UnmarshalTimeRemaining(in.time_remaining)]]

\* Event.UnmarshalJSON of input `in` into record i
Event_UnmarshalJSON(i, in, idOnFail) ==
    LET created == jsonUnmarshal_time(in.created)
        err == IF ~in.shapeOk THEN MkErr("DecodeError", 0) ELSE created.err
    IN  IF err # NoErr
        THEN [err |-> err, rec |-> [i EXCEPT !.ID = idOnFail]]
        ELSE [err |-> NoErr,
              rec |-> [i EXCEPT !.ID = in.id,
                                !.Created = created.p,
                                !.TimeRemaining =
                                    UnmarshalTimeRemaining(in.time_remaining)]]

\* mutant: a failed parse of updated is dropped
Instance_UnmarshalJSON_swallow(i, in, idOnFail) ==
    LET created == jsonUnmarshal_time(in.created)
        updated == jsonUnmarshal_time(in.updated)
        err == IF ~in.shapeOk THEN MkErr("DecodeError", 0) ELSE created.err
    IN  IF err # NoErr
        THEN [err |-> err, rec |-> [i EXCEPT !.ID = idOnFail]]
        ELSE [err |-> NoErr,
              rec |-> [i EXCEPT !.ID = in.id,
                                !.Created = created.p,
                                !.Updated = updated.p]]

\* mutant: Updated is assigned from the created field
Instance_UnmarshalJSON_updatedFromCreated(i, in, idOnFail) ==
    LET created == jsonUnmarshal_time(in.created)
        updated == jsonUnmarshal_time(in.updated)
        err == IF ~in.shapeOk THEN MkErr("DecodeError", 0)
               ELSE IF created.err # NoErr THEN created.err
               ELSE updated.err
    IN  IF err # NoErr
        THEN [err |-> err, rec |-> [i EXCEPT !.ID = idOnFail]]
        ELSE [err |-> NoErr,
              rec |-> [i EXCEPT !.ID = in.id,
                                !.Created = created.p,
                                !.Updated = created.p]]

\* mutant: the tolerant fields are assigned before the error is looked at
Instance_UnmarshalJSON_assignsFirst(i, in, idOnFail) ==
    LET created == jsonUnmarshal_time(in.created)
        updated == jsonUnmarshal_time(in.updated)
        err == IF ~in.shapeOk THEN MkErr("DecodeError", 0)
               ELSE IF created.err # NoErr THEN created.err
               ELSE updated.err
    IN  IF err # NoErr
        THEN [err |-> err,
              rec |-> [i EXCEPT !.ID = idOnFail,
                                !.Created = created.p,
                                !.Updated = updated.p]]
        ELSE [err |-> NoErr,
              rec |-> [i EXCEPT !.ID = in.id,
                                !.Created = created.p,
                                !.Updated = updated.p]]

\* Instance.UnmarshalJSON of input `in` into record i
Instance_UnmarshalJSON(i, in, idOnFail) ==
    LET created == jsonUnmarshal_time(in.created)
        updated == jsonUnmarshal_time(in.updated)
        err == IF ~in.shapeOk THEN MkErr("DecodeError", 0)
               ELSE IF created.err # NoErr THEN created.err
               ELSE updated.err
    IN  IF err # NoErr
        THEN [err |-> err, rec |-> [i EXCEPT !.ID = idOnFail]]
        ELSE [err |-> NoErr,
              rec |-> [i EXCEPT !.ID = in.id,
                                !.Created = created.p,
                                !.Updated = updated.p]]

\* the JSON objects decoded: well-shaped with an id and the tolerant fields, or
\* of a shape the structural decode rejects (a standard field of the wrong type)
BadShapeInputs ==
    [shapeOk : {FALSE}, id : StdIds, created : {TsAbsent, TsNull},
     updated : {TsAbsent}, time_remaining : {DurAbsent}]
EventInputs ==
    [shapeOk : {TRUE}, id : StdIds, created : TsJSON, updated : {TsAbsent},
     time_remaining : DurJSON] \cup BadShapeInputs
InstanceInputs ==
    [shapeOk : {TRUE}, id : StdIds, created : TsJSON, updated : TsJSON,
     time_remaining : {DurAbsent}] \cup BadShapeInputs

NoInput ==
    [shapeOk |-> TRUE, id |-> 0, created |-> TsAbsent, updated |-> TsAbsent,
     time_remaining |-> DurAbsent]

\* the zero value of Event / Instance
ZeroRec == [ID |-> 0, Created |-> NoTime, Updated |-> NoTime, TimeRemaining |-> NoValue]

\* every tolerant field of record r, of type t, holds a value
Held(t, r) ==
    /\ r.Created.set
    /\ t = "Event" => r.TimeRemaining.set
    /\ t = "Instance" => r.Updated.set

DecInit ==
    /\ target \in {"Event", "Instance"}
    /\ heldBefore = FALSE
    /\ rec = ZeroRec
    /\ decErr = NoErr
    /\ lastIn = NoInput
    /\ decodes = 0

DecIdle == DecInit /\ target = "Event"

DecodeEvent(in) ==
    /\ target = "Event"
    /\ decodes < MaxDecodes
    /\ rec' \in {Event_UnmarshalJSON(rec, in, x).rec : x \in StdAfterFailure(rec, in)}
    /\ decErr' = Event_UnmarshalJSON(rec, in, in.id).err
    /\ lastIn' = in
    /\ decodes' = decodes + 1
    /\ heldBefore' = Held(target, rec)
    /\ UNCHANGED target
    /\ UNCHANGED notDec

DecodeInstance(in) ==
    /\ target = "Instance"
    /\ decodes < MaxDecodes
    /\ rec' \in {Instance_UnmarshalJSON(rec, in, x).rec : x \in StdAfterFailure(rec, in)}
    /\ decErr' = Instance_UnmarshalJSON(rec, in, in.id).err
    /\ lastIn' = in
    /\ decodes' = decodes + 1
    /\ heldBefore' = Held(target, rec)
    /\ UNCHANGED target
    /\ UNCHANGED notDec

DecNext ==
    \/ \E in \in EventInputs : DecodeEvent(in)
    \/ \E in \in InstanceInputs : DecodeInstance(in)

(***************************************************************************)
(* Options Records and their serialization.                                *)
(*                                                                         *)
(* A field of an Options Record is [name, omitempty, ptr]: its JSON name,  *)
(* whether its tag says omitempty, and whether it is declared as a         *)
(* pointer.  A pointer field holds "nil", or points to the "zero" (empty)  *)
(* value or to a "value"; any other field holds "zero" or a "value".       *)
(***************************************************************************)
\* at most MaxSetFields fields of a record are given something other than
\* what the zero record holds
MaxSetFields == 2

Req(n) == [name |-> n, omitempty |-> FALSE, ptr |-> FALSE]
Omit(n) == [name |-> n, omitempty |-> TRUE, ptr |-> FALSE]
Ptr(n) == [name |-> n, omitempty |-> TRUE, ptr |-> TRUE]

InstanceCreateOptions_fields ==
    {Req("region"), Req("type"), Omit("label"), Omit("root_pass"),
     Omit("authorized_keys"), Omit("authorized_users"), Omit("stackscript_id"),
     Omit("stackscript_data"), Omit("backup_id"), Omit("image"),
     Omit("interfaces"), Omit("backups_enabled"), Omit("private_ip"),
     Omit("tags"), Ptr("metadata"), Omit("firewall_id"),
     Ptr("placement_group"), Ptr("swap_size"), Ptr("booted"), Omit("group")}

InstanceCreatePlacementGroupOptions_fields ==
    {Req("id"), Ptr("compliant_only")}

\* mutant: WatchdogEnabled is a plain bool with omitempty
InstanceUpdateOptions_plainWatchdog ==
    {Omit("label"), Ptr("backups"), Ptr("alerts"), Omit("watchdog_enabled"),
     Ptr("tags"), Ptr("group")}

InstanceUpdateOptions_fields ==
    {Omit("label"), Ptr("backups"), Ptr("alerts"), Ptr("watchdog_enabled"),
     Ptr("tags"), Ptr("group")}

InstanceCloneOptions_fields ==
    {Omit("region"), Omit("type"), Omit("linode_id"), Omit("label"),
     Req("backups_enabled"), Omit("disks"), Omit("configs"),
     Omit("private_ip"), Ptr("metadata"), Ptr("placement_group"),
     Omit("group")}

InstanceResizeOptions_fields ==
    {Req("type"), Omit("migration_type"), Ptr("allow_auto_disk_resize")}

InstanceMigrateOptions_fields ==
    {Omit("type"), Omit("region"), Ptr("placement_group")}

PlacementGroupCreateOptions_fields ==
    {Req("label"), Req("region"), Req("affinity_type"), Req("is_strict")}

PlacementGroupUpdateOptions_fields == {Omit("label")}

PlacementGroupAssignOptions_fields == {Req("linodes"), Ptr("compliant_only")}

PlacementGroupUnAssignOptions_fields == {Req("linodes")}

OptionTypes ==
    {"InstanceCreateOptions", "InstanceCreatePlacementGroupOptions",
     "InstanceUpdateOptions", "InstanceCloneOptions", "InstanceResizeOptions",
     "InstanceMigrateOptions", "PlacementGroupCreateOptions",
     "PlacementGroupUpdateOptions", "PlacementGroupAssignOptions",
     "PlacementGroupUnAssignOptions"}

OptionFields(t) ==
    CASE t = "InstanceCreateOptions" -> InstanceCreateOptions_fields
      [] t = "InstanceCreatePlacementGroupOptions" ->
             InstanceCreatePlacementGroupOptions_fields
      [] t = "InstanceUpdateOptions" -> InstanceUpdateOptions_fields
      [] t = "InstanceCloneOptions" -> InstanceCloneOptions_fields
      [] t = "InstanceResizeOptions" -> InstanceResizeOptions_fields
      [] t = "InstanceMigrateOptions" -> InstanceMigrateOptions_fields
      [] t = "PlacementGroupCreateOptions" -> PlacementGroupCreateOptions_fields
      [] t = "PlacementGroupUpdateOptions" -> PlacementGroupUpdateOptions_fields
      [] t = "PlacementGroupAssignOptions" -> PlacementGroupAssignOptions_fields
      [] OTHER -> PlacementGroupUnAssignOptions_fields

AllOptionFields == UNION {OptionFields(t) : t \in OptionTypes}

\* what a field can hold, and what it holds in the zero record
FieldValues(f) == IF f.ptr THEN {"nil", "zero", "value"} ELSE {"zero", "value"}
ZeroValue(f) == IF f.ptr THEN "nil" ELSE "zero"
ZeroOptions(t) ==
    [n \in {f.name : f \in OptionFields(t)} |->
        ZeroValue(CHOOSE f \in OptionFields(t) : f.name = n)]

\* encoding/json: a pointer is empty when nil, any other value when it is
\* false, 0, "" or of length 0
isEmptyValue(f, r) == IF f.ptr THEN r = "nil" ELSE r = "zero"

\* json.Marshal of the record v of type t: every field but the omitempty
\* fields that are empty, each with the value it holds
jsonMarshal_struct(t, v) ==
    {[name |-> f.name, v |-> v[f.name]] :
        f \in {g \in OptionFields(t) :
                  ~(g.omitempty /\ isEmptyValue(g, v[g.name]))}}

OptInit ==
    /\ otype \in OptionTypes
    /\ oval = ZeroOptions(otype)
    /\ obody = {}
    /\ opc = "building"

OptIdle == OptInit /\ otype = "PlacementGroupUpdateOptions"

\* the caller gives field f the value r
SetField(f, r) ==
    /\ opc = "building"
    /\ f \in OptionFields(otype)
    /\ r \in FieldValues(f)
    /\ r # oval[f.name]
    /\ LET v == [oval EXCEPT ![f.name] = r] IN
       /\ Cardinality({g \in OptionFields(otype) : v[g.name] # ZeroValue(g)})
              <= MaxSetFields
       /\ oval' = v
    /\ UNCHANGED <<otype, obody, opc>>
    /\ UNCHANGED notOpt

\* the record is serialized into a request body
MarshalOptions ==
    /\ opc = "building"
    /\ obody' = jsonMarshal_struct(otype, oval)
    /\ opc' = "marshalled"
    /\ UNCHANGED <<otype, oval>>
    /\ UNCHANGED notOpt

OptNext ==
    \/ \E f \in AllOptionFields, r \in {"nil", "zero", "value"} : SetField(f, r)
    \/ MarshalOptions

(***************************************************************************)
(* GetUpdateOptions.                                                       *)
(*                                                                         *)
(* Strings are numbers, 0 the empty string; a pointer is [set, v]: nil, or *)
(* the value it points to.                                                 *)
(***************************************************************************)
\* an instance carries at most MaxTags tags
MaxTags == 1

NilPtr == [set |-> FALSE, v |-> 0]
NilBool == [set |-> FALSE, v |-> FALSE]
NilTags == [set |-> FALSE, v |-> <<>>]
AddrOf(x) == [set |-> TRUE, v |-> x]

TagLists == UNION {[1..n -> {1}] : n \in 0..MaxTags}

\* the fields of Instance that GetUpdateOptions reads
InstanceValues ==
    [Label : 0..MaxLabel, Group : 0..MaxLabel,
     Backups : {NilPtr, AddrOf(1)}, Alerts : {NilPtr, AddrOf(1)},
     WatchdogEnabled : BOOLEAN, Tags : TagLists]

\* the zero InstanceUpdateOptions
ZeroUpdateOptions ==
    [Label |-> 0, Group |-> NilPtr, Backups |-> NilPtr, Alerts |-> NilPtr,
     WatchdogEnabled |-> NilBool, Tags |-> NilTags]

\* mutant: an empty group is left unset
Instance_GetUpdateOptions_omitsEmptyGroup(i) ==
    [inst |-> i,
     opts |-> [Label |-> i.Label,
               Group |-> IF i.Group = 0 THEN NilPtr ELSE AddrOf(i.Group),
               Backups |-> i.Backups,
               Alerts |-> i.Alerts,
               WatchdogEnabled |-> AddrOf(i.WatchdogEnabled),
               Tags |-> AddrOf(i.Tags)]]

\* Instance.GetUpdateOptions on instance i: the options returned, and the
\* instance after the call
Instance_GetUpdateOptions(i) ==
    [inst |-> i,
     opts |-> [Label |-> i.Label,
               Group |-> AddrOf(i.Group),
               Backups |-> i.Backups,
               Alerts |-> i.Alerts,
               WatchdogEnabled |-> AddrOf(i.WatchdogEnabled),
               Tags |-> AddrOf(i.Tags)]]

UpdInit ==
    /\ inst \in InstanceValues
    /\ instBefore = inst
    /\ uopts = ZeroUpdateOptions
    /\ upc = "before"

UpdIdle ==
    /\ UpdInit
    /\ inst = [Label |-> 0, Group |-> 0, Backups |-> NilPtr, Alerts |-> NilPtr,
               WatchdogEnabled |-> FALSE, Tags |-> <<>>]

GetUpdateOptions ==
    /\ upc = "before"
    /\ LET r == Instance_GetUpdateOptions(inst) IN
       /\ uopts' = r.opts
       /\ inst' = r.inst
    /\ instBefore' = inst
    /\ upc' = "after"
    /\ UNCHANGED notUpd

UpdNext == GetUpdateOptions

\* the list calls at rest
ListIdle ==
    /\ ListInit
    /\ sizes = <<1>>

Init == ListInit /\ CallInit /\ DecIdle /\ OptIdle /\ UpdIdle

Next == ListNext

InitCall == ListIdle /\ CallInit /\ DecIdle /\ OptIdle /\ UpdIdle

NextCall == CallNext

SpecCall == InitCall /\ [][NextCall]_vars

InitDecode == ListIdle /\ CallInit /\ DecInit /\ OptIdle /\ UpdIdle

NextDecode == DecNext

SpecDecode == InitDecode /\ [][NextDecode]_vars

InitOptions == ListIdle /\ CallInit /\ DecIdle /\ OptInit /\ UpdIdle

NextOptions == OptNext

SpecOptions == InitOptions /\ [][NextOptions]_vars

InitUpdate == ListIdle /\ CallInit /\ DecIdle /\ OptIdle /\ UpdInit

NextUpdate == UpdNext

SpecUpdate == InitUpdate /\ [][NextUpdate]_vars

Spec == Init /\ [][Next]_vars

(***************************************************************************)
(* Properties of the list calls.                                           *)
(***************************************************************************)
Succeeded(c) == pc[c] = "done" /\ returned[c].err = NoErr
Failed(c) == pc[c] = "done" /\ returned[c].err # NoErr

\* the number of pages the call may fetch: all of them, or the cap if smaller
Limit(c) ==
    IF cap[c] = 0 \/ cap[c] > Len(sizes) THEN Len(sizes) ELSE cap[c]

\* the number of pages of call c merged into its accumulator so far
Merged(c) ==
    CASE pc[c] = "idle" -> 0
      [] pc[c] \in {"ready", "inflight"} -> page[c] - 1
      [] Succeeded(c) -> page[c]
      [] OTHER -> page[c] - 1

C2_SequentialFetches ==
    \A c \in Calls :
        (pc[c] # "idle" /\ cap[c] = 0) =>
            /\ \A i \in 1..Len(invoked[c]) : invoked[c][i] = i
            /\ Len(invoked[c]) <= Len(sizes)
            /\ pc[c] = "inflight" =>
                  /\ Len(invoked[c]) = page[c]
                  /\ data[response(c)] = ConcatPages(endpoint[c], page[c] - 1)
            /\ Succeeded(c) => Len(invoked[c]) = Len(sizes)

\* a call without cap succeeded after exactly three fetches, the endpoint holding
\* fewer records than pages
C2_Witness ==
    \E c \in Calls :
        /\ Succeeded(c) /\ cap[c] = 0
        /\ Len(sizes) = 3 /\ SumSizes(sizes) < 3
        /\ invoked[c] = <<1, 2, 3>>

\* C3: when the fetch of a page fails, the list call is over, the caller gets
\* that page's error and no records, whatever was accumulated before.
C3_AllOrNothing ==
    \A c \in Calls :
        httpErr[c] # NoErr =>
            /\ pc[c] = "done"
            /\ returned[c].err = httpErr[c]
            /\ returned[c].err.page = invoked[c][Len(invoked[c])]
            /\ returned[c].data = <<>>

\* page 2 failed with an API error after page 1 had put records in the accumulator
C3_Witness ==
    \E c \in Calls :
        /\ Failed(c)
        /\ returned[c].err = MkErr("APIError", 2)
        /\ data[response(c)] # <<>>

C5_IndependentAccumulators ==
    \A c \in Calls :
        pc[c] # "idle" =>
            /\ data[response(c)] = ConcatPages(endpoint[c], Merged(c))
            /\ \A i \in 1..Len(data[response(c)]) :
                  data[response(c)][i][1] = endpoint[c]
            /\ Succeeded(c) => returned[c].data = data[response(c)]

\* two calls are in the middle of their listings at once, on different endpoints,
\* each with records accumulated
C5_Witness ==
    \E c, d \in Calls :
        /\ c # d
        /\ endpoint[c] # endpoint[d]
        /\ pc[c] = "inflight" /\ pc[d] = "inflight"
        /\ data[response(c)] # <<>> /\ data[response(d)] # <<>>

(***************************************************************************)
(* Properties of the non-list client methods.                              *)
(***************************************************************************)
\* the methods that carry an Options Record as their body
OptsMethods ==
    {"CreateInstance", "UpdateInstance", "CloneInstance", "RebuildInstance",
     "RescueInstance", "ResizeInstance", "MigrateInstance",
     "CreatePlacementGroup", "UpdatePlacementGroup",
     "AssignPlacementGroupLinodes", "UnAssignPlacementGroupLinodes"}

\* invocation (m, a) serializes something before its request
Marshals(m, a) ==
    \/ m \in OptsMethods
    \/ m \in {"BootInstance", "RebootInstance"} /\ a.configID # 0

\* C6: a non-list method invokes the HTTP layer at most once at any time, and
\* exactly once by the time it has returned when its options serialize, whether
\* the request succeeded or failed; at most one request goes out.
C6_OneNetworkCall ==
    /\ Len(minvoked) <= 1
    /\ Len(msent) <= 1
    /\ mpc = "inflight" => Len(minvoked) = 1
    /\ (mpc = "done" /\ (Marshals(method, arg) => arg.opts.ser)) =>
          Len(minvoked) = 1

\* RenameInstance returned a transport error after its single request
C6_Witness ==
    /\ mpc = "done"
    /\ method = "RenameInstance"
    /\ mret.err.kind = "TransportError"
    /\ Len(minvoked) = 1 /\ Len(msent) = 1

\* C7: a body-carrying method whose serialization fails returns the
\* serialization error (and no record), and the HTTP layer was never invoked.
C7_SerializationErrorBeforeNetwork ==
    (/\ mpc = "done"
     /\ method \in {"CreateInstance", "UpdateInstance", "CloneInstance",
                     "RebuildInstance", "RescueInstance", "ResizeInstance",
                     "MigrateInstance", "BootInstance", "RebootInstance"}
     /\ Marshals(method, arg)
     /\ ~arg.opts.ser) =>
        /\ mret = [rec |-> NilRec, err |-> MkErr("SerializationError", 0)]
        /\ minvoked = <<>>
        /\ msent = <<>>

\* ResizeInstance returned with options that do not serialize
C7_Witness ==
    /\ mpc = "done"
    /\ method = "ResizeInstance"
    /\ ~arg.opts.ser
    /\ mret.err.kind = "SerializationError"

\* C8: a record-returning method returns either the decoded record and no error,
\* or no record and an error; when the HTTP layer was invoked the error is the
\* one the HTTP layer / error classifier gave, unchanged.
C8_RecordXorError ==
    (mpc = "done" /\ method \in RecordMethods) =>
        \/ /\ mret.err = NoErr
           /\ mret.rec # NilRec
           /\ mret.rec.type = ResultType(method)
           /\ mhttpErr = NoErr
        \/ /\ mret.err # NoErr
           /\ mret.rec = NilRec
           /\ minvoked # <<>> => mret.err = mhttpErr

\* GetEvent returned the API error of its request, and no Event
C8_Witness ==
    /\ mpc = "done"
    /\ method = "GetEvent"
    /\ mret.err = MkErr("APIError", 0)
    /\ mhttpErr = MkErr("APIError", 0)

(***************************************************************************)
(* Properties of the decoders.                                             *)
(***************************************************************************)
IsJunk(v) == v.kind = "string" /\ v.fmt = "junk"
IsNullOrAbsent(v) == v.kind \in {"absent", "null"}

\* the timestamp fields the target type decodes
JunkTimestamp(in) ==
    IsJunk(in.created) \/ (target = "Instance" /\ IsJunk(in.updated))

\* C9: a null or absent timestamp field leaves "no timestamp" (nil, which is not
\* the zero time) in a decode that succeeds; a timestamp string in none of the
\* recognized formats (Event.created, Instance.created, Instance.updated)
\* makes the decode of the whole record fail with a decode error.
C9_TimestampDecode ==
    decodes > 0 =>
        /\ JunkTimestamp(lastIn) => decErr = MkErr("DecodeError", 0)
        /\ (lastIn.shapeOk /\ ~JunkTimestamp(lastIn)) =>
              /\ decErr = NoErr
              /\ IsNullOrAbsent(lastIn.created) =>
                    (rec.Created = NoTime /\ rec.Created # SomeTime(0))
              /\ (target = "Instance" /\ IsNullOrAbsent(lastIn.updated)) =>
                    (rec.Updated = NoTime /\ rec.Updated # SomeTime(0))

\* an Instance whose created is well-formed and whose updated is in no
\* recognized format was decoded, and the decode failed
C9_Witness ==
    /\ target = "Instance"
    /\ lastIn.shapeOk
    /\ lastIn.created.fmt = "iso"
    /\ IsJunk(lastIn.updated)
    /\ decErr.kind = "DecodeError"

\* C10: time_remaining never makes the decode of an Event fail, and after a
\* decode that succeeds TimeRemaining is: no value (nil, not zero) for null or
\* absent, n for the bare integer n, the seconds of a parseable duration
\* string, and no value for a string that does not parse.
C10_DurationDecodeTotal ==
    (decodes > 0 /\ target = "Event") =>
        /\ decErr # NoErr => (~lastIn.shapeOk \/ IsJunk(lastIn.created))
        /\ decErr = NoErr =>
              LET v == lastIn.time_remaining IN
              /\ IsNullOrAbsent(v) =>
                    (rec.TimeRemaining = NoValue /\ rec.TimeRemaining # SomeValue(0))
              /\ v.kind = "int" => rec.TimeRemaining = SomeValue(v.n)
              /\ (v.kind = "string" /\ v.ok) =>
                    rec.TimeRemaining = SomeValue(v.m * 60 + v.s)
              /\ (v.kind = "string" /\ ~v.ok) => rec.TimeRemaining = NoValue

\* an Event was decoded a second time, with a time_remaining string that does
\* not parse, over a record that held a value: the decode succeeded
C10_Witness ==
    /\ target = "Event"
    /\ decodes = 2
    /\ lastIn.time_remaining.kind = "string" /\ ~lastIn.time_remaining.ok
    /\ lastIn.created.kind = "string"
    /\ decErr = NoErr
    /\ rec.Created.set
    /\ rec.TimeRemaining = NoValue

\* the instant a timestamp string in a recognized format denotes: the hour it
\* shows, moved to UTC by the zone offset it carries (none: already UTC)
InstantOf(v) == v.h - v.off

\* what a timestamp field holds after a decode of the JSON value v that
\* succeeded
TimeFrom(v) == IF IsNullOrAbsent(v) THEN NoTime ELSE SomeTime(InstantOf(v))

UnparseableDuration(v) == v.kind = "string" /\ ~v.ok

\* C11: the decode of an Event whose time_remaining is a string that matches
\* no duration format, and which is well-formed otherwise, reports no error:
\* the standard fields and created are those of the input, and TimeRemaining
\* alone is "no value".
C11_BadDurationDecodes ==
    (/\ decodes > 0
     /\ target = "Event"
     /\ lastIn.shapeOk
     /\ ~IsJunk(lastIn.created)
     /\ UnparseableDuration(lastIn.time_remaining)) =>
        /\ decErr = NoErr
        /\ rec.ID = lastIn.id
        /\ rec.Created = TimeFrom(lastIn.created)
        /\ rec.TimeRemaining = NoValue

\* an Event with an ISO-8601 created and a time_remaining string that does not
\* parse was decoded: no error, created is populated, TimeRemaining is not
C11_Witness ==
    /\ target = "Event"
    /\ decodes > 0
    /\ lastIn.shapeOk
    /\ lastIn.created.fmt = "iso"
    /\ UnparseableDuration(lastIn.time_remaining)
    /\ decErr = NoErr
    /\ rec.ID = lastIn.id
    /\ rec.Created = SomeTime(lastIn.created.h - lastIn.created.off)
    /\ rec.TimeRemaining = NoValue

\* the two timestamp strings are the zone-less form and an ISO-8601 form of
\* one instant
SameInstantTwoForms(a, b) ==
    /\ a.kind = "string" /\ a.fmt = "space"
    /\ b.kind = "string" /\ b.fmt = "iso"
    /\ InstantOf(a) = InstantOf(b)

TimeResolved(f, v) ==
    \/ f = NoTime /\ IsNullOrAbsent(v)
    \/ f.set /\ v.kind = "string" /\ ~IsJunk(v) /\ f.t = InstantOf(v)

\* TimeRemaining is resolved against the JSON value v: empty for null, absent
\* or a string that does not parse, or the seconds the value gives
DurationResolved(f, v) ==
    \/ f = NoValue /\ (IsNullOrAbsent(v) \/ UnparseableDuration(v))
    \/ f.set /\ v.kind = "int" /\ f.n = v.n
    \/ f.set /\ v.kind = "string" /\ v.ok /\ f.n = v.m * 60 + v.s

\* C13: whenever the decode of an Event or an Instance reports no error, the
\* standard fields are those of the input and every tolerant field
\* (Event.Created, Event.TimeRemaining, Instance.Created, Instance.Updated)
\* holds either the value decoded from the input or the defined empty value.
C13_DecodeTotal ==
    (decodes > 0 /\ decErr = NoErr) =>
        /\ lastIn.shapeOk
        /\ rec.ID = lastIn.id
        /\ TimeResolved(rec.Created, lastIn.created)
        /\ target = "Instance" => TimeResolved(rec.Updated, lastIn.updated)
        /\ target = "Event" =>
              DurationResolved(rec.TimeRemaining, lastIn.time_remaining)

\* an Instance was decoded without error from an input that gives created as
\* a timestamp string and updated as null: one field holds the decoded value,
\* the other the empty value
C13_Witness ==
    /\ target = "Instance"
    /\ decodes > 0
    /\ decErr = NoErr
    /\ lastIn.created.kind = "string"
    /\ lastIn.updated.kind = "null"
    /\ rec.ID = lastIn.id
    /\ rec.Created.set
    /\ rec.Updated = NoTime

\* C18: after a decode without error the tolerant fields are those of the
\* latest input alone, whatever the record held before: empty where the input
\* omits the field or gives null, the input's value otherwise.
C18_LatestInputOnly ==
    (decodes > 0 /\ decErr = NoErr) =>
        /\ IsNullOrAbsent(lastIn.created) => ~rec.Created.set
        /\ rec.Created = TimeFrom(lastIn.created)
        /\ target = "Instance" =>
              /\ IsNullOrAbsent(lastIn.updated) => ~rec.Updated.set
              /\ rec.Updated = TimeFrom(lastIn.updated)
        /\ target = "Event" =>
              /\ IsNullOrAbsent(lastIn.time_remaining) => ~rec.TimeRemaining.set
              /\ DurationResolved(rec.TimeRemaining, lastIn.time_remaining)

\* an Event whose Created and TimeRemaining held values was decoded again,
\* without error, from an input with created null and time_remaining absent:
\* both fields are empty
C18_Witness ==
    /\ target = "Event"
    /\ decodes = 2
    /\ heldBefore
    /\ decErr = NoErr
    /\ lastIn.created.kind = "null"
    /\ lastIn.time_remaining.kind = "absent"
    /\ rec.Created = NoTime
    /\ rec.TimeRemaining = NoValue

\* C19: a decode of an Event or an Instance that reports an error leaves
\* Created, Updated and TimeRemaining of the record as they were.
C19_FailureKeepsTolerantFields ==
    [][(decodes' = decodes + 1 /\ decErr' # NoErr) =>
          /\ rec'.Created = rec.Created
          /\ rec'.Updated = rec.Updated
          /\ rec'.TimeRemaining = rec.TimeRemaining]_vars

\* an Instance whose Created and Updated held values was decoded again from
\* an input whose created is null and whose updated is in no recognized
\* format: the decode failed and both fields still hold their values
C19_Witness ==
    /\ target = "Instance"
    /\ decodes = 2
    /\ heldBefore
    /\ decErr # NoErr
    /\ lastIn.shapeOk
    /\ lastIn.created.kind = "null"
    /\ IsJunk(lastIn.updated)
    /\ rec.Created.set
    /\ rec.Updated.set

(***************************************************************************)
(* The page cap.                                                           *)
(***************************************************************************)
\* C15: a list call given a page cap never asks for a page beyond the cap,
\* however many pages the provider reports, and when it succeeds it has
\* fetched pages 1 up to the cap (or up to the last page, if that comes
\* first) and returns their records.
C15_PageCapStopsFetching ==
    \A c \in Calls :
        cap[c] # 0 =>
            /\ Len(invoked[c]) <= cap[c]
            /\ \A i \in 1..Len(invoked[c]) : invoked[c][i] <= cap[c]
            /\ Succeeded(c) =>
                  /\ invoked[c] = [i \in 1..Limit(c) |-> i]
                  /\ Len(returned[c].data) =
                         SumSizes(SubSeq(sizes, 1, Limit(c)))
                  /\ returned[c].data = ConcatPages(endpoint[c], Limit(c))

\* a call capped at fewer pages than the provider reports succeeded: it asked
\* for the pages up to the cap only and returned their records
C15_Witness ==
    \E c \in Calls :
        /\ cap[c] # 0
        /\ cap[c] < Len(sizes)
        /\ Succeeded(c)
        /\ pages[c] = Len(sizes)
        /\ Len(invoked[c]) = cap[c]
        /\ returned[c].data = ConcatPages(endpoint[c], cap[c])
        /\ returned[c].data # ConcatPages(endpoint[c], Len(sizes))

(***************************************************************************)
(* Boot and reboot.                                                        *)
(***************************************************************************)
BootPath(m) ==
    IF m = "BootInstance" THEN "linode/instances/%d/boot"
    ELSE "linode/instances/%d/reboot"

\* the request names no config: an empty body or an empty JSON object
NamesNoConfig(req) == req.body.kind \in {"", "{}"} /\ req.body.n = 0

\* C16: BootInstance and RebootInstance invoke the HTTP layer for one request
\* only, a POST to the boot (reboot) path of the given instance; with
\* configID 0 the request names no config and is always made, with any other
\* configID its body is {"config_id": configID}.
C16_BootRequest ==
    method \in {"BootInstance", "RebootInstance"} =>
        /\ Len(minvoked) <= 1
        /\ msent \in {<<>>, minvoked}
        /\ \A i \in 1..Len(minvoked) :
              /\ minvoked[i].verb = "POST"
              /\ minvoked[i].tmpl = BootPath(method)
              /\ minvoked[i].id = arg.id
              /\ arg.configID = 0 => NamesNoConfig(minvoked[i])
              /\ arg.configID # 0 => minvoked[i].body = ConfigBody(arg.configID)
        /\ (mpc = "done" /\ (arg.configID = 0 \/ arg.opts.ser)) =>
              Len(minvoked) = 1

\* BootInstance with configID 0 returned after its request, a POST with an
\* empty body to the boot path of instance 2, went out
C16_Witness ==
    /\ method = "BootInstance"
    /\ mpc = "done"
    /\ arg.configID = 0
    /\ arg.id = 2
    /\ msent = <<Request("POST", "linode/instances/%d/boot", 2, NoBody)>>
    /\ mret.err = NoErr

(***************************************************************************)
(* Properties of the Options Records.                                      *)
(***************************************************************************)
\* the fields of a record type that are represented as optional: the nullable
\* scalars and lists, and the optional sub-records
NullableFields(t) ==
    CASE t = "InstanceCreateOptions" ->
             {"swap_size", "booted", "metadata", "placement_group"}
      [] t = "InstanceUpdateOptions" ->
             {"watchdog_enabled", "tags", "group", "backups", "alerts"}
      [] t \in {"InstanceCreatePlacementGroupOptions",
                "PlacementGroupAssignOptions"} -> {"compliant_only"}
      [] t = "InstanceResizeOptions" -> {"allow_auto_disk_resize"}
      [] t = "InstanceCloneOptions" -> {"metadata", "placement_group"}
      [] t = "InstanceMigrateOptions" -> {"placement_group"}
      [] OTHER -> {}

\* the fields of a record type that every request must carry
RequiredFields(t) ==
    CASE t = "InstanceCreateOptions" -> {"region", "type"}
      [] t = "InstanceCreatePlacementGroupOptions" -> {"id"}
      [] t = "InstanceCloneOptions" -> {"backups_enabled"}
      [] t = "InstanceResizeOptions" -> {"type"}
      [] t = "PlacementGroupCreateOptions" ->
             {"label", "region", "affinity_type", "is_strict"}
      [] t \in {"PlacementGroupAssignOptions",
                "PlacementGroupUnAssignOptions"} -> {"linodes"}
      [] OTHER -> {}

FieldNames(t) == {f.name : f \in OptionFields(t)}
Sent(n) == \E m \in obody : m.name = n
SentAs(n, r) == [name |-> n, v |-> r] \in obody

\* a nullable field is sent exactly when it is set, with the value it was set to
NullableSentWhenSet(n) ==
    /\ Sent(n) <=> oval[n] # "nil"
    /\ oval[n] # "nil" => SentAs(n, oval[n])

C17_GetUpdateOptions ==
    upc = "after" =>
        /\ uopts.Label = instBefore.Label
        /\ uopts.Group.set /\ uopts.Group.v = instBefore.Group
        /\ uopts.Backups = instBefore.Backups
        /\ uopts.Alerts = instBefore.Alerts
        /\ uopts.WatchdogEnabled.set
        /\ uopts.WatchdogEnabled.v = instBefore.WatchdogEnabled
        /\ uopts.Tags.set /\ uopts.Tags.v = instBefore.Tags
        /\ inst = instBefore

\* GetUpdateOptions was called on an instance with an empty group, no tags,
\* the watchdog off and backups present: the three are set in the options
\* and the backups are the instance's
C17_Witness ==
    /\ upc = "after"
    /\ instBefore.Group = 0
    /\ instBefore.Tags = <<>>
    /\ ~instBefore.WatchdogEnabled
    /\ instBefore.Backups.set
    /\ uopts.Group = AddrOf(0)
    /\ uopts.Tags = AddrOf(<<>>)
    /\ uopts.WatchdogEnabled = AddrOf(FALSE)
    /\ uopts.Backups = instBefore.Backups
    /\ inst = instBefore

====
